---- MODULE Spec2Model ----
(***************************************************************************)
(* Model of watcher/common/profiler.py (MemoryTracker, trace_with_memory,  *)
(* is_profiling_enabled) and of watcher/decision_engine/service.py         *)
(* (DecisionEngineService start/stop/wait/reset).                          *)
(*                                                                         *)
(* Python's None is the empty tuple, a present value v is <<v>>.           *)
(* osprofiler, psutil and the base Service are collaborators outside the   *)
(* repository: they are modelled by what the calling code relies on, and   *)
(* their outcomes (a sample failing, a notification failing, a start       *)
(* raising) are inputs drawn nondeterministically.                         *)
(***************************************************************************)
EXTENDS Integers, Sequences, FiniteSets, TLC

VARIABLES
    CONF,                 \* CONF.profiler: enabled, trace_audit_execution, trace_memory_usage
    info,                 \* the info argument given to trace_with_memory
    func,                 \* the callable that was decorated
    pc,                   \* per thread: position inside wrapper
    args,                 \* per thread: the arguments of the current call
    tracker,              \* per thread: the MemoryTracker of the current call
    outcome,              \* per thread: what traced_func returned or raised
    result,               \* per thread: what wrapper returned or raised to its caller
    prof,                 \* per thread: osprofiler's thread-local profiler
    notified,             \* per thread: events osprofiler sent to its notifier
    ncalls,               \* per thread: calls of wrapper made so far
    obs,                  \* per thread: record of what the current call did
    gate,                 \* per thread: the last call of is_profiling_enabled
    _bg_scheduler,        \* DecisionEngineService._bg_scheduler
    _continuous_handler,  \* DecisionEngineService._continuous_handler
    constructed,          \* subservice instances constructed so far
    calls                 \* lifecycle calls made so far, each with its events

profVars == <<info, func, pc, args, tracker, outcome, result, prof, notified,
              ncalls, obs>>
svcVars == <<_bg_scheduler, _continuous_handler, constructed, calls>>
vars == <<CONF, profVars, svcVars, gate>>

None == <<>>
Some(v) == <<v>>

\* ---- bounds ------------------------------------------------------------
MaxCalls == 2
MaxOps == 2

Threads == {"t1", "t2"}
ArgValues == {1, 2}
Funcs == {"double", "checked"}
InfoKinds == {"none", "dict", "callable"}
Flags == {"enabled", "trace_audit_execution", "trace_memory_usage"}

\* ---- psutil: process.memory_info().rss / 1024 / 1024 ---------------------
BytesPerMB == 1024 * 1024

\* rss readings: 0, 0.5 MB, 100 MB, 140 MB
RssValues == {0, 524288, 104857600, 146800640}

SampleOutcomes == {[ok |-> FALSE, rss |-> 0]} \cup {[ok |-> TRUE, rss |-> r] : r \in RssValues}

\* The float rss / 1024 / 1024: dividing by a power of two is exact, so the
\* value is whole + frac / 2^20 with 0 <= frac < 2^20.
ToMB(rss) == [whole |-> rss \div BytesPerMB, frac |-> rss % BytesPerMB]

MBUnits(m) == m.whole * BytesPerMB + m.frac

\* the operands of the subtraction exchanged
MBSub_Reversed(a, b) == ToMB(MBUnits(b) - MBUnits(a))

\* self.mem_peak - self.mem_baseline on two such floats (exact)
MBSub(a, b) == ToMB(MBUnits(a) - MBUnits(b))

\* ---- values the info callable can yield for 'audit_id' -------------------
AuditIdValues == {[k |-> "int", n |-> 0, s |-> ""],
                  [k |-> "int", n |-> 7, s |-> ""],
                  [k |-> "str", n |-> 0, s |-> ""],
                  [k |-> "str", n |-> 0, s |-> "uuid-1"]}

\* outcomes of info(*args, **kwargs) followed by metadata.get('audit_id')
MetaOutcomes == {[kind |-> "raise", audit_id |-> None],
                 [kind |-> "nondict", audit_id |-> None],
                 [kind |-> "dict", audit_id |-> None]}
                \cup {[kind |-> "dict", audit_id |-> Some(a)] : a \in AuditIdValues}

Digits == <<"0", "1", "2", "3", "4", "5", "6", "7", "8", "9">>

\* Python str() of an audit id
Str(a) == IF a.k = "str" THEN a.s ELSE Digits[a.n + 1]

\* Python truthiness of an audit id (None, 0 and "" are falsy)
Truthy(o) == /\ o # None
             /\ IF o[1].k = "str" THEN o[1].s # "" ELSE o[1].n # 0

\* str(self.audit_id) without the conditional: None becomes the string "None"
PublishedAuditId_Unconditional(o) == IF o = None THEN Some("None") ELSE Some(Str(o[1]))

\* "audit_id": str(self.audit_id) if self.audit_id else None
PublishedAuditId(o) == IF Truthy(o) THEN Some(Str(o[1])) ELSE None

\* ---- the decorated callable ----------------------------------------------
Target(f, a) ==
    IF f = "double" THEN [kind |-> "ret", val |-> 2 * a]
    ELSE IF a = 1 THEN [kind |-> "ret", val |-> a]
         ELSE [kind |-> "raise", val |-> a]

\* ---- osprofiler's thread-local profiler ----------------------------------
NoProfiler == [active |-> FALSE, names |-> <<>>]

ProfInit == {NoProfiler,
             [active |-> TRUE, names |-> <<>>],
             [active |-> TRUE, names |-> <<"outer">>]}

\* profiler.start(name, info): a no-op without an active profiler
ProfStart(p, name) ==
    IF p.active THEN [p EXCEPT !.names = Append(@, name)] ELSE p

StartEvents(p, name) ==
    IF p.active THEN <<[ev |-> "start", name |-> name, meta |-> None]>> ELSE <<>>

\* profiler.stop(info) raises IndexError when the profiler has no open span
ProfStopRaises(p) == p.active /\ p.names = <<>>

\* profiler.stop(info): pops the innermost open span
ProfStop(p) ==
    IF p.active /\ p.names # <<>>
    THEN [p EXCEPT !.names = SubSeq(@, 1, Len(@) - 1)]
    ELSE p

StopEvents(p, meta) ==
    IF p.active /\ p.names # <<>>
    THEN <<[ev |-> "stop", name |-> p.names[Len(p.names)], meta |-> meta]>>
    ELSE <<>>

\* ---- MemoryTracker ---------------------------------------------------------
\* MemoryTracker.__init__
NewTracker(name, aid) ==
    [trace_name |-> name, audit_id |-> aid, mem_baseline |-> None, mem_peak |-> None]

NoTracker == NewTracker("", None)

TraceName == "watcher-audit-execute"

\* __exit__ returning True
ExitReturn_True == TRUE

\* __exit__'s return value: False, exceptions are not suppressed
ExitReturn == FALSE

\* the with statement: an exception of the body propagates unless __exit__
\* returned a true value, in which case the statement completes and wrapper
\* falls off its end, returning None
WithResult(out, suppressed) ==
    IF out.kind = "raise" /\ suppressed THEN [kind |-> "ret", val |-> 0 - 1] ELSE out

\* the derivation of audit_id without its try/except
MetaCaught_Missing == FALSE

\* except Exception: pass around the derivation of audit_id, lines 96-100
MetaCaught == TRUE

\* what wrapper derives as audit_id from info and the outcome m of calling it
DerivedAuditId(i, m) ==
    IF i = "callable" /\ m.kind = "dict" THEN m.audit_id ELSE None

\* info(*args, **kwargs) or metadata.get raised
MetaRaises(i, m) == i = "callable" /\ m.kind \in {"raise", "nondict"}

NoObs == [targetCalls |-> <<>>, samples |-> <<>>, pubCalls |-> <<>>,
          metaRaised |-> FALSE, tmuTrue |-> FALSE, enTrue |-> FALSE,
          tmuEnter |-> None, tmuExit |-> None, pubRaised |-> FALSE,
          taeTrue |-> FALSE, names0 |-> <<>>, aid |-> None, overlap |-> FALSE]

NoOutcome == [kind |-> "none", val |-> 0]

\* one MemoryTracker object kept at module level and used by every call
TrackerSlot_Shared(t) == "t1"

\* with MemoryTracker(name, audit_id), line 103: every call of wrapper
\* constructs a tracker of its own, held only by that call's with statement
TrackerSlot(t) == t

InFlight(t) == pc[t] \in {"enter", "call", "exit"}

\* ---- wrapper, lines 92-103: derive audit_id, construct the MemoryTracker --
Invoke(t, a, m) ==
    /\ pc[t] \in {"idle", "done"}
    /\ ncalls[t] < MaxCalls
    /\ LET raised == MetaRaises(info, m)
           aborted == raised /\ ~MetaCaught
       IN /\ tracker' = [tracker EXCEPT ![TrackerSlot(t)] =
                IF aborted THEN NoTracker
                ELSE NewTracker(TraceName, DerivedAuditId(info, m))]
          /\ obs' = [obs EXCEPT ![t] = [NoObs EXCEPT !.metaRaised = raised,
                                                     !.tmuTrue = CONF.trace_memory_usage,
                                                     !.enTrue = CONF.enabled,
                                                     !.taeTrue = CONF.trace_audit_execution,
                                                     !.names0 = prof[t].names,
                                                     !.aid = DerivedAuditId(info, m),
                                                     !.overlap = \E u \in Threads \ {t} : InFlight(u)]]
          /\ result' = [result EXCEPT ![t] =
                IF aborted THEN [kind |-> "raise", val |-> 0 - 2] ELSE NoOutcome]
          /\ pc' = [pc EXCEPT ![t] = IF aborted THEN "done" ELSE "enter"]
    /\ args' = [args EXCEPT ![t] = a]
    /\ ncalls' = [ncalls EXCEPT ![t] = @ + 1]
    /\ outcome' = [outcome EXCEPT ![t] = NoOutcome]
    /\ notified' = [notified EXCEPT ![t] = <<>>]
    /\ UNCHANGED <<CONF, info, func, prof, svcVars, gate>>

\* ---- MemoryTracker.__enter__ ------------------------------------------------
\* __enter__ sampling without consulting the flag
EnterGuard_Always(flag) == TRUE

\* if CONF.profiler.trace_memory_usage, line 46
EnterGuard(flag) == flag

\* a failed baseline sample recorded as 0 MB instead of None
EnterTracker_FailureAsZero(tr, flag, s) ==
    IF EnterGuard(flag)
    THEN IF s.ok THEN [tr EXCEPT !.mem_baseline = Some(ToMB(s.rss))]
         ELSE [tr EXCEPT !.mem_baseline = Some(ToMB(0))]
    ELSE tr

EnterTracker(tr, flag, s) ==
    IF EnterGuard(flag)
    THEN IF s.ok THEN [tr EXCEPT !.mem_baseline = Some(ToMB(s.rss))]
         ELSE [tr EXCEPT !.mem_baseline = None]
    ELSE tr

Enter(t, s) ==
    /\ pc[t] = "enter"
    /\ LET flag == CONF.trace_memory_usage
       IN /\ tracker' = [tracker EXCEPT ![TrackerSlot(t)] = EnterTracker(@, flag, s)]
          /\ obs' = [obs EXCEPT ![t] =
                [@ EXCEPT !.tmuEnter = Some(flag),
                          !.samples = IF EnterGuard(flag)
                                      THEN Append(@, [at |-> "enter", ok |-> s.ok, rss |-> s.rss])
                                      ELSE @]]
    /\ pc' = [pc EXCEPT ![t] = "call"]
    /\ UNCHANGED <<CONF, info, func, args, outcome, result, prof, notified, ncalls, svcVars, gate>>

\* ---- traced_func(*args, **kwargs): osprofiler's trace wrapper around func --
\* start(name), then func, then stop() in a finally clause
TracedCall(t) ==
    /\ pc[t] = "call"
    /\ LET out == Target(func, args[t])
           p1 == ProfStart(prof[t], TraceName)
       IN /\ outcome' = [outcome EXCEPT ![t] = out]
          /\ prof' = [prof EXCEPT ![t] = ProfStop(p1)]
          /\ notified' = [notified EXCEPT ![t] =
                @ \o StartEvents(prof[t], TraceName) \o StopEvents(p1, None)]
          /\ obs' = [obs EXCEPT ![t] = [@ EXCEPT !.targetCalls = Append(@, args[t])]]
    /\ pc' = [pc EXCEPT ![t] = "exit"]
    /\ UNCHANGED <<CONF, info, func, args, tracker, result, ncalls, svcVars, gate>>

\* ---- MemoryTracker.__exit__ ---------------------------------------------------
\* __exit__ without the test of mem_baseline
ExitGuard_FlagOnly(tr, flag) == flag

\* if CONF.profiler.trace_memory_usage and self.mem_baseline is not None, line 56
ExitGuard(tr, flag) == flag /\ tr.mem_baseline # None

\* self.mem_peak - self.mem_baseline raises TypeError on a None baseline
DeltaRaises(tr) == tr.mem_baseline = None

Metrics(tr, peak) ==
    [memory_baseline_mb |-> tr.mem_baseline[1],
     memory_peak_mb |-> peak,
     memory_delta_mb |-> MBSub(peak, tr.mem_baseline[1]),
     audit_id |-> PublishedAuditId(tr.audit_id)]

ExitTracker(tr, flag, s) ==
    IF ExitGuard(tr, flag) /\ s.ok THEN [tr EXCEPT !.mem_peak = Some(ToMB(s.rss))] ELSE tr

\* s is the outcome of the peak sample, nf says the notifier fails
Exit(t, s, nf) ==
    /\ pc[t] = "exit"
    /\ LET flag == CONF.trace_memory_usage
           tr == tracker[TrackerSlot(t)]
           sampled == ExitGuard(tr, flag)
           publish == sampled /\ s.ok /\ ~DeltaRaises(tr)
           meta == Metrics(tr, ToMB(s.rss))
           raises == ProfStopRaises(prof[t]) \/ (prof[t].active /\ nf)
       IN /\ tracker' = [tracker EXCEPT ![TrackerSlot(t)] = ExitTracker(tr, flag, s)]
          /\ prof' = [prof EXCEPT ![t] = IF publish THEN ProfStop(@) ELSE @]
          /\ notified' = [notified EXCEPT ![t] =
                IF publish /\ ~raises THEN @ \o StopEvents(prof[t], Some(meta)) ELSE @]
          /\ obs' = [obs EXCEPT ![t] =
                [@ EXCEPT !.tmuExit = Some(flag),
                          !.samples = IF sampled THEN Append(@, [at |-> "exit", ok |-> s.ok, rss |-> s.rss])
                                      ELSE @,
                          !.pubCalls = IF publish THEN Append(@, meta) ELSE @,
                          !.pubRaised = publish /\ raises]]
    /\ result' = [result EXCEPT ![t] = WithResult(outcome[t], ExitReturn)]
    /\ pc' = [pc EXCEPT ![t] = "done"]
    /\ UNCHANGED <<CONF, info, func, args, outcome, ncalls, svcVars, gate>>

\* ---- a configuration reload changes one flag of CONF.profiler ---------------
SetConf(flag, v) ==
    /\ CONF[flag] # v
    /\ CONF' = [CONF EXCEPT ![flag] = v]
    /\ obs' = [t \in Threads |->
                 IF v /\ InFlight(t) /\ flag = "trace_memory_usage"
                 THEN [obs[t] EXCEPT !.tmuTrue = TRUE]
                 ELSE IF v /\ InFlight(t) /\ flag = "enabled"
                      THEN [obs[t] EXCEPT !.enTrue = TRUE]
                      ELSE IF v /\ InFlight(t) /\ flag = "trace_audit_execution"
                           THEN [obs[t] EXCEPT !.taeTrue = TRUE]
                           ELSE obs[t]]
    /\ UNCHANGED <<info, func, pc, args, tracker, outcome, result, prof, notified,
                   ncalls, svcVars, gate>>

\* ---- is_profiling_enabled ---------------------------------------------------
\* the flag alone, without the test of profiler.get()
is_profiling_enabled_FlagOnly(t) == CONF.enabled

\* return CONF.profiler.enabled and profiler.get() is not None
is_profiling_enabled(t) == CONF.enabled /\ prof[t].active

\* a call of is_profiling_enabled() on thread t; what it read and what it
\* returned are kept in gate
CheckEnabled(t) ==
    /\ gate' = [gate EXCEPT ![t] = Some([enabled |-> CONF.enabled,
                                         active |-> prof[t].active,
                                         ret |-> is_profiling_enabled(t)])]
    /\ UNCHANGED <<CONF, profVars, svcVars>>

\* osprofiler's profiler.init / profiler.clean on thread t, done by the code
\* around the instrumented calls: profiler.get() changes between calls
ProfilerSession(t, p) ==
    /\ pc[t] = "idle"
    /\ prof[t] # p
    /\ prof' = [prof EXCEPT ![t] = p]
    /\ UNCHANGED <<CONF, info, func, pc, args, tracker, outcome, result, notified,
                   ncalls, obs, svcVars, gate>>

\* ---- DecisionEngineService ---------------------------------------------------
\* One planned call of a lifecycle method: who is called, which operation, whether
\* it returns normally (an input), and whether a raise is caught by the method.
Call(who, op, ok, caught) == [who |-> who, op |-> op, ok |-> ok, caught |-> caught]

\* start() without the try/except around init_from_conf
StartPlan_InitUncaught(enabled, b, i, s, h) ==
    <<Call("base", "start", b, FALSE)>>
    \o (IF enabled THEN <<Call("profiler", "init", i, FALSE)>> ELSE <<>>)
    \o <<Call("scheduler", "start", s, FALSE), Call("handler", "start", h, FALSE)>>

\* start() with its last two lines exchanged
StartPlan_HandlerFirst(enabled, b, i, s, h) ==
    <<Call("base", "start", b, FALSE)>>
    \o (IF enabled THEN <<Call("profiler", "init", i, TRUE)>> ELSE <<>>)
    \o <<Call("handler", "start", h, FALSE), Call("scheduler", "start", s, FALSE)>>

\* start() with scheduler.start() inside a try/except of its own
StartPlan_SchedulerCaught(enabled, b, i, s, h) ==
    <<Call("base", "start", b, FALSE)>>
    \o (IF enabled THEN <<Call("profiler", "init", i, TRUE)>> ELSE <<>>)
    \o <<Call("scheduler", "start", s, TRUE), Call("handler", "start", h, FALSE)>>

\* start(), lines 61-79
StartPlan(enabled, b, i, s, h) ==
    <<Call("base", "start", b, FALSE)>>
    \o (IF enabled THEN <<Call("profiler", "init", i, TRUE)>> ELSE <<>>)
    \o <<Call("scheduler", "start", s, FALSE), Call("handler", "start", h, FALSE)>>

\* the scheduler's method called before the base method
OpPlan_SchedulerFirst(op, b, s) ==
    <<Call("scheduler", op, s, FALSE), Call("base", op, b, FALSE)>>

\* reset() starting the scheduler again after resetting it
OpPlan_Restarting(op, b, s) ==
    <<Call("base", op, b, FALSE), Call("scheduler", op, s, FALSE)>>
    \o (IF op = "reset" THEN <<Call("scheduler", "start", TRUE, FALSE)>> ELSE <<>>)

\* stop() also stopping the continuous handler
OpPlan_WithHandler(op, b, s) ==
    <<Call("base", op, b, FALSE), Call("scheduler", op, s, FALSE)>>
    \o (IF op = "stop" THEN <<Call("handler", op, TRUE, FALSE)>> ELSE <<>>)

\* stop(), wait(), reset(), lines 81-94: the base method, then the scheduler's
OpPlan(op, b, s) ==
    <<Call("base", op, b, FALSE), Call("scheduler", op, s, FALSE)>>

Fatal(c) == ~c.ok /\ ~c.caught

\* index of the first call whose exception leaves the method, 0 if none
FirstFatal(plan) ==
    IF \E k \in 1..Len(plan) : Fatal(plan[k])
    THEN CHOOSE k \in 1..Len(plan) : Fatal(plan[k]) /\ \A j \in 1..(k - 1) : ~Fatal(plan[j])
    ELSE 0

\* the calls the method actually makes: everything up to the first fatal one
Executed(plan) ==
    IF FirstFatal(plan) = 0 THEN plan ELSE SubSeq(plan, 1, FirstFatal(plan))

Outcome(plan) ==
    IF FirstFatal(plan) = 0 THEN "ok" ELSE plan[FirstFatal(plan)].who

Uses(ex, who) == \E k \in 1..Len(ex) : ex[k].who = who

\* a property constructing a new instance on every access
Access_NoCache(field, ctor, kind) ==
    [inst |-> Len(ctor) + 1, ctor |-> Append(ctor, kind)]

\* the bg_scheduler and continuous_handler properties, lines 47-57: construct
\* on first access, afterwards return the stored instance
Access(field, ctor, kind) ==
    IF field = None THEN [inst |-> Len(ctor) + 1, ctor |-> Append(ctor, kind)]
    ELSE [inst |-> field[1], ctor |-> ctor]

\* a lifecycle method runs its plan
Run(op, plan) ==
    /\ Len(calls) < MaxOps
    /\ LET ex == Executed(plan)
           sa == IF Uses(ex, "scheduler")
                 THEN Access(_bg_scheduler, constructed, "scheduler")
                 ELSE [inst |-> 0, ctor |-> constructed]
           ha == IF Uses(ex, "handler")
                 THEN Access(_continuous_handler, sa.ctor, "handler")
                 ELSE [inst |-> 0, ctor |-> sa.ctor]
           InstOf(c) == IF c.who = "scheduler" THEN sa.inst
                        ELSE IF c.who = "handler" THEN ha.inst ELSE 0
           events == [k \in 1..Len(ex) |->
                        [who |-> ex[k].who, op |-> ex[k].op, ok |-> ex[k].ok,
                         inst |-> InstOf(ex[k])]]
       IN /\ _bg_scheduler' = IF Uses(ex, "scheduler") THEN Some(sa.inst) ELSE _bg_scheduler
          /\ _continuous_handler' = IF Uses(ex, "handler") THEN Some(ha.inst)
                                    ELSE _continuous_handler
          /\ constructed' = ha.ctor
          /\ calls' = Append(calls, [op |-> op, enabled |-> CONF.enabled,
                                     events |-> events, result |-> Outcome(plan)])
    /\ UNCHANGED <<CONF, profVars, gate>>

Start(b, i, s, h) == Run("start", StartPlan(CONF.enabled, b, i, s, h))

Stop(b, s) == Run("stop", OpPlan("stop", b, s))

Wait(b, s) == Run("wait", OpPlan("wait", b, s))

Reset(b, s) == Run("reset", OpPlan("reset", b, s))

ConfInit == [Flags -> BOOLEAN]

ProfilerInit ==
    /\ CONF \in ConfInit
    /\ info \in InfoKinds
    /\ func \in Funcs
    /\ pc = [t \in Threads |-> "idle"]
    /\ args = [t \in Threads |-> 0]
    /\ tracker = [t \in Threads |-> NoTracker]
    /\ outcome = [t \in Threads |-> NoOutcome]
    /\ result = [t \in Threads |-> NoOutcome]
    /\ prof \in [Threads -> ProfInit]
    /\ notified = [t \in Threads |-> <<>>]
    /\ ncalls = [t \in Threads |-> 0]
    /\ obs = [t \in Threads |-> NoObs]
    /\ gate = [t \in Threads |-> None]

ServiceInit ==
    /\ _bg_scheduler = None
    /\ _continuous_handler = None
    /\ constructed = <<>>
    /\ calls = <<>>

\* one thread calls the instrumented function
Init ==
    /\ ProfilerInit
    /\ prof["t2"] = NoProfiler
    /\ ServiceInit

Step(t) ==
    \/ \E a \in ArgValues, m \in MetaOutcomes : Invoke(t, a, m)
    \/ \E s \in SampleOutcomes : Enter(t, s)
    \/ TracedCall(t)
    \/ \E s \in SampleOutcomes, nf \in BOOLEAN : Exit(t, s, nf)

Reload == \E flag \in Flags, v \in BOOLEAN : SetConf(flag, v)

Next ==
    \/ Step("t1")
    \/ Reload

Spec == Init /\ [][Next]_vars

\* ---- the service lifecycle, driven by one controlling thread -----------------
InitSvc ==
    /\ ProfilerInit
    /\ CONF.trace_audit_execution /\ CONF.trace_memory_usage
    /\ info = "none"
    /\ func = "double"
    /\ prof = [t \in Threads |-> NoProfiler]
    /\ ServiceInit

NextSvc ==
    \/ \E b, i, s, h \in BOOLEAN : Start(b, i, s, h)
    \/ \E b, s \in BOOLEAN : Stop(b, s)
    \/ \E b, s \in BOOLEAN : Wait(b, s)
    \/ \E b, s \in BOOLEAN : Reset(b, s)
    \/ \E v \in BOOLEAN : SetConf("enabled", v)

SpecSvc == InitSvc /\ [][NextSvc]_vars

\* ---- properties of one instrumented call -------------------------------------
Done(t) == pc[t] = "done"

SamplesAt(t, at) == {k \in 1..Len(obs[t].samples) : obs[t].samples[k].at = at}

MetaEvents(t) == {k \in 1..Len(notified[t]) : notified[t][k].meta # None}

BaselineTaken(t) == \E k \in SamplesAt(t, "enter") : obs[t].samples[k].ok

\* C1: the wrapper calls the target exactly once with the original arguments and
\* returns the value, or raises the error, of the unwrapped callable, whatever the
\* flags and whatever the outcomes of info, of both samples and of the publication.
C1_Transparent ==
    \A t \in Threads :
        /\ Len(obs[t].targetCalls) <= 1
        /\ Done(t) => /\ obs[t].targetCalls = <<args[t]>>
                      /\ result[t] = Target(func, args[t])

C1_Witness ==
    \E t \in Threads :
        /\ Done(t) /\ obs[t].metaRaised /\ obs[t].pubRaised
        /\ result[t].kind = "ret"
        /\ \E k \in SamplesAt(t, "exit") : TRUE

\* C4: with profiler.enabled false during the whole call, no memory sample is
\* taken, no publication call is made and the call returns the plain function's value.
C4_DisabledIsNoOp ==
    \A t \in Threads :
        (pc[t] # "idle" /\ ~obs[t].enTrue) =>
            /\ obs[t].samples = <<>>
            /\ obs[t].pubCalls = <<>>
            /\ Done(t) => result[t] = Target(func, args[t])

\* C5: with trace_memory_usage false during the whole call, no sample is taken on
\* acquire or on release and the tracker publishes no memory metrics.
C5_NoSamplingWhenOff ==
    \A t \in Threads :
        (pc[t] # "idle" /\ ~obs[t].tmuTrue) =>
            /\ obs[t].samples = <<>>
            /\ obs[t].pubCalls = <<>>
            /\ MetaEvents(t) = {}

C5_Witness ==
    \E t \in Threads :
        /\ Done(t) /\ ~obs[t].tmuTrue
        /\ obs[t].tmuEnter = Some(FALSE) /\ obs[t].tmuExit = Some(FALSE)
        /\ prof[t].active

\* C6: when the baseline sample failed or was not taken, the call takes no peak
\* sample and the tracker publishes nothing, also when trace_memory_usage changes
\* between acquire and release and whether the target returns or raises.
C6_NoPeakWithoutBaseline ==
    \A t \in Threads :
        (pc[t] # "idle" /\ ~BaselineTaken(t)) =>
            /\ SamplesAt(t, "exit") = {}
            /\ tracker[t].mem_peak = None
            /\ obs[t].pubCalls = <<>>
            /\ MetaEvents(t) = {}

C6_Witness ==
    \E t \in Threads :
        /\ Done(t) /\ ~BaselineTaken(t)
        /\ obs[t].tmuExit = Some(TRUE)
        /\ result[t].kind = "raise"
        /\ \/ obs[t].tmuEnter = Some(FALSE)
           \/ SamplesAt(t, "enter") # {}

\* C7 as stated: after release, peak is populated iff baseline is populated.
C7_PeakIffBaseline ==
    \A t \in Threads :
        Done(t) => (tracker[t].mem_peak # None <=> tracker[t].mem_baseline # None)

\* C7 amended: after release, a populated peak implies a populated baseline, and a
\* tracker with a baseline has a peak exactly when trace_memory_usage was true at
\* release and the peak sample succeeded; metrics are published only with both.
C7_PeakOnlyWithBaseline ==
    \A t \in Threads :
        Done(t) =>
            /\ tracker[t].mem_peak # None => tracker[t].mem_baseline # None
            /\ obs[t].pubCalls # <<>> =>
                   tracker[t].mem_peak # None /\ tracker[t].mem_baseline # None
            /\ tracker[t].mem_baseline # None =>
                   (tracker[t].mem_peak # None <=>
                        /\ obs[t].tmuExit = Some(TRUE)
                        /\ \E k \in SamplesAt(t, "exit") : obs[t].samples[k].ok)

C7_Witness ==
    \E t \in Threads :
        /\ Done(t)
        /\ tracker[t].mem_baseline # None /\ tracker[t].mem_peak # None
        /\ obs[t].pubRaised

\* C8: every published mapping carries the baseline sampled on acquire, the peak
\* sampled on release and delta = peak - baseline exactly (negative when the peak
\* is below the baseline).
C8_DeltaExact ==
    \A t \in Threads :
        \A j \in 1..Len(obs[t].pubCalls) :
            LET m == obs[t].pubCalls[j] IN
            /\ \E k \in SamplesAt(t, "enter") :
                   obs[t].samples[k].ok /\ m.memory_baseline_mb = ToMB(obs[t].samples[k].rss)
            /\ \E k \in SamplesAt(t, "exit") :
                   obs[t].samples[k].ok /\ m.memory_peak_mb = ToMB(obs[t].samples[k].rss)
            /\ MBUnits(m.memory_delta_mb) =
                   MBUnits(m.memory_peak_mb) - MBUnits(m.memory_baseline_mb)
            /\ m.memory_delta_mb.frac \in 0..(BytesPerMB - 1)
            /\ m.memory_baseline_mb.whole * BytesPerMB + m.memory_baseline_mb.frac \in RssValues

C8_Witness ==
    \E t \in Threads :
        \E j \in 1..Len(obs[t].pubCalls) :
            LET m == obs[t].pubCalls[j] IN
            /\ m.memory_baseline_mb = [whole |-> 100, frac |-> 0]
            /\ m.memory_peak_mb = [whole |-> 140, frac |-> 0]
            /\ m.memory_delta_mb = [whole |-> 40, frac |-> 0]

\* C9: when info raises, the target still runs once, its result or error comes
\* back unchanged, memory tracking proceeds as the flag says, and every mapping
\* published for the call has audit_id null.
C9_MetaFailure ==
    \A t \in Threads :
        (Done(t) /\ obs[t].metaRaised) =>
            /\ obs[t].targetCalls = <<args[t]>>
            /\ result[t] = Target(func, args[t])
            /\ tracker[t].audit_id = None
            /\ obs[t].tmuEnter # None /\ obs[t].tmuExit # None
            /\ obs[t].tmuEnter = Some(TRUE) => SamplesAt(t, "enter") # {}
            /\ (obs[t].tmuExit = Some(TRUE) /\ BaselineTaken(t)) => SamplesAt(t, "exit") # {}
            /\ \A j \in 1..Len(obs[t].pubCalls) : obs[t].pubCalls[j].audit_id = None

C9_Witness ==
    \E t \in Threads :
        /\ Done(t) /\ obs[t].metaRaised
        /\ Len(obs[t].pubCalls) = 1
        /\ ~obs[t].pubRaised

\* C10: when the target raises, release runs before the caller sees anything, it
\* samples the peak and publishes when tracking is on and a baseline is present,
\* and the caller then gets the target's exception, also when the peak sample or
\* the publication failed.
C10_ExceptionPropagates ==
    \A t \in Threads :
        /\ pc[t] = "exit" => result[t] = NoOutcome
        /\ (Done(t) /\ outcome[t].kind = "raise") =>
            /\ result[t] = outcome[t]
            /\ result[t] = Target(func, args[t])
            /\ obs[t].tmuExit # None
            /\ (obs[t].tmuExit = Some(TRUE) /\ tracker[t].mem_baseline # None) =>
                   /\ SamplesAt(t, "exit") # {}
                   /\ (\E k \in SamplesAt(t, "exit") : obs[t].samples[k].ok)
                          => Len(obs[t].pubCalls) = 1

C10_Witness ==
    \E t \in Threads :
        /\ Done(t) /\ outcome[t].kind = "raise" /\ result[t].kind = "raise"
        /\ obs[t].pubRaised

\* ---- properties of start() ------------------------------------------------------
StartCalls == {k \in 1..Len(calls) : calls[k].op = "start"}

EventsOf(c, who) == {k \in 1..Len(c.events) : c.events[k].who = who}

InitRaised(c) == \E k \in EventsOf(c, "profiler") : ~c.events[k].ok

OthersOk(c) == \A k \in 1..Len(c.events) : c.events[k].who # "profiler" => c.events[k].ok

Names(c) == [k \in 1..Len(c.events) |-> <<c.events[k].who, c.events[k].op>>]

IsPrefix(a, b) == Len(a) <= Len(b) /\ a = SubSeq(b, 1, Len(a))

\* C2: a start() with profiler.enabled true whose backend initialization raises
\* never raises that failure to its caller, and when base, scheduler and handler
\* starts do not raise it returns normally with scheduler and handler started.
C2_InitFailureContained ==
    \A k \in StartCalls :
        LET c == calls[k] IN
        /\ c.result # "profiler"
        /\ (c.enabled /\ InitRaised(c) /\ OthersOk(c)) =>
            /\ c.result = "ok"
            /\ \E i \in EventsOf(c, "scheduler") :
                   /\ c.events[i].op = "start" /\ c.events[i].ok
                   /\ _bg_scheduler = Some(c.events[i].inst)
            /\ \E i \in EventsOf(c, "handler") :
                   /\ c.events[i].op = "start" /\ c.events[i].ok
                   /\ _continuous_handler = Some(c.events[i].inst)

C2_Witness ==
    \E k \in StartCalls :
        calls[k].enabled /\ InitRaised(calls[k]) /\ calls[k].result = "ok"

\* C3: the calls of one start() are, in this order, base start, the backend
\* initialization (only when profiler.enabled is true, then once and right after
\* a base start that returned), scheduler start, handler start; a handler start
\* is always preceded by a scheduler start.
ExpectedStart(enabled) ==
    <<(<<"base", "start">>)>>
    \o (IF enabled THEN <<(<<"profiler", "init">>)>> ELSE <<>>)
    \o <<(<<"scheduler", "start">>), (<<"handler", "start">>)>>

C3_StartOrder ==
    \A k \in StartCalls :
        LET c == calls[k] IN
        /\ IsPrefix(Names(c), ExpectedStart(c.enabled))
        /\ Cardinality(EventsOf(c, "profiler")) <= 1
        /\ EventsOf(c, "profiler") # {} <=> (c.enabled /\ c.events[1].ok)
        /\ \A h \in EventsOf(c, "handler") : \E i \in EventsOf(c, "scheduler") : i < h
        /\ c.result = "ok" => Names(c) = ExpectedStart(c.enabled)

C3_Witness ==
    \E k \in StartCalls :
        /\ calls[k].enabled /\ ~InitRaised(calls[k])
        /\ Len(calls[k].events) = 4
        /\ \E j \in StartCalls : ~calls[j].enabled /\ Len(calls[j].events) = 3

\* ---- span handling of one instrumented call ---------------------------------------
SpanStarts(t) == {k \in 1..Len(notified[t]) : notified[t][k].ev = "start"}

SpanStops(t, name) ==
    {k \in 1..Len(notified[t]) : notified[t][k].ev = "stop" /\ notified[t][k].name = name}

\* C11: with trace_audit_execution false during the whole call no span is opened,
\* whatever trace_memory_usage is, and with trace_memory_usage false during the
\* whole call no memory sample is taken, whatever trace_audit_execution is.
C11_FlagsGateIndependently ==
    \A t \in Threads :
        pc[t] # "idle" =>
            /\ ~obs[t].taeTrue => SpanStarts(t) = {}
            /\ ~obs[t].tmuTrue => obs[t].samples = <<>>

\* C15: the span of the call is open before the tracker is acquired, and the
\* memory metrics are attached to the span this call opened, before it is closed.
C15_MetricsOnOwnOpenSpan ==
    \A t \in Threads :
        /\ (prof[t].active /\ pc[t] = "call") => SpanStarts(t) # {}
        /\ \A k \in MetaEvents(t) :
               /\ notified[t][k].name = TraceName
               /\ \E i \in SpanStarts(t) : i < k
               /\ \A j \in SpanStops(t, TraceName) : k <= j

\* C16: a call closes exactly the spans it opened: when it has returned or raised,
\* the stack of open spans is the one it found, and a span of an enclosing caller
\* is still open.
C16_SpanBalanced ==
    \A t \in Threads :
        Done(t) => prof[t].names = obs[t].names0

\* ---- properties of the lifecycle ----------------------------------------------------
OtherOps == {"stop", "wait", "reset"}

OtherCalls == {k \in 1..Len(calls) : calls[k].op \in OtherOps}

\* positions <<call, event>> of the calls made on a subservice
Positions(who) ==
    {<<k, i>> \in (1..Len(calls)) \X (1..4) :
        i <= Len(calls[k].events) /\ calls[k].events[i].who = who}

EventAt(p) == calls[p[1]].events[p[2]]

Earlier(p, q) == p[1] < q[1] \/ (p[1] = q[1] /\ p[2] < q[2])

StartsOf(who) == {p \in Positions(who) : EventAt(p).op = "start"}

CountOf(kind) == Cardinality({k \in 1..Len(constructed) : constructed[k] = kind})

\* C12: a start() whose base start, scheduler start or handler start raises lets
\* that error reach its caller and makes no later call: nothing after a failed
\* base start, no handler start after a failed scheduler start, and after a failed
\* handler start the scheduler's start has been called and has returned.
C12_StartFailuresFatal ==
    \A k \in StartCalls :
        LET c == calls[k]
            n == Len(c.events)
        IN /\ \A i \in 1..n :
                  (c.events[i].who # "profiler" /\ ~c.events[i].ok) =>
                      /\ i = n
                      /\ c.result = c.events[i].who
           /\ ~c.events[1].ok => n = 1
           /\ c.result = "scheduler" => EventsOf(c, "handler") = {}
           /\ c.result = "handler" =>
                  \E i \in EventsOf(c, "scheduler") : c.events[i].ok /\ i < n
           /\ c.result = "ok" => OthersOk(c)

C12_Witness ==
    /\ \E k \in StartCalls : calls[k].result = "scheduler" /\ calls[k].enabled
    /\ \E k \in StartCalls : calls[k].result \in {"base", "handler"}

\* C13: stop(), wait() and reset() call the base method and then, only when it
\* returned, the scheduler's method of the same name, once each; an error of
\* either reaches the caller.
C13_BaseThenScheduler ==
    \A k \in OtherCalls :
        LET c == calls[k]
            n == Len(c.events)
        IN /\ IsPrefix(Names(c), <<(<<"base", c.op>>), (<<"scheduler", c.op>>)>>)
           /\ n >= 1
           /\ n = 2 <=> c.events[1].ok
           /\ c.result = (IF ~c.events[1].ok THEN "base"
                          ELSE IF ~c.events[2].ok THEN "scheduler" ELSE "ok")

C13_Witness ==
    /\ \E k \in OtherCalls : calls[k].op = "stop" /\ calls[k].result = "ok"
    /\ \E k \in OtherCalls : calls[k].op \in {"wait", "reset"} /\ calls[k].result # "ok"

SchedulerOrdered ==
    /\ \A p \in Positions("scheduler") :
           EventAt(p).op \in OtherOps =>
               \E q \in StartsOf("scheduler") : Earlier(q, p) /\ EventAt(q).ok
    /\ Cardinality(StartsOf("scheduler")) <= 1
    /\ Cardinality(StartsOf("handler")) <= 1

\* C17 as stated: over every sequence of lifecycle calls the scheduler is never
\* stopped, waited on or reset before it was started, and scheduler and handler
\* are never started twice.
C17_LifecycleEnforced == SchedulerOrdered

\* the caller starts first, successfully, and never starts again
CallerFollowsOrder ==
    /\ calls # <<>>
    /\ calls[1].op = "start" /\ calls[1].result = "ok"
    /\ \A k \in 2..Len(calls) : calls[k].op # "start"

\* C17 amended: the service keeps no lifecycle state, so only for a caller that
\* starts first, successfully, and never starts again is the scheduler never
\* stopped, waited on or reset before its start and are scheduler and handler
\* started exactly once.
C17_OrderedWhenCallerOrdered ==
    CallerFollowsOrder =>
        /\ SchedulerOrdered
        /\ Cardinality(StartsOf("scheduler")) = 1
        /\ Cardinality(StartsOf("handler")) = 1

C17_Witness ==
    /\ CallerFollowsOrder
    /\ Len(calls) = 2
    /\ calls[2].op \in {"reset", "stop"} /\ calls[2].result = "ok"

\* C18: nothing is constructed with the service; over any sequence of lifecycle
\* calls at most one scheduler and one handler are constructed, each by the first
\* call that reaches it, and every call on a subservice targets that one instance,
\* also after calls that failed.
C18_LazySingletons ==
    /\ CountOf("scheduler") <= 1 /\ CountOf("handler") <= 1
    /\ Len(constructed) = CountOf("scheduler") + CountOf("handler")
    /\ calls = <<>> => (constructed = <<>> /\ _bg_scheduler = None /\ _continuous_handler = None)
    /\ CountOf("scheduler") = 1 <=> Positions("scheduler") # {}
    /\ CountOf("handler") = 1 <=> Positions("handler") # {}
    /\ _bg_scheduler # None <=> CountOf("scheduler") = 1
    /\ _continuous_handler # None <=> CountOf("handler") = 1
    /\ \A p \in Positions("scheduler") :
           /\ _bg_scheduler = Some(EventAt(p).inst)
           /\ constructed[EventAt(p).inst] = "scheduler"
    /\ \A p \in Positions("handler") :
           /\ _continuous_handler = Some(EventAt(p).inst)
           /\ constructed[EventAt(p).inst] = "handler"

C18_Witness ==
    /\ Len(calls) = 2
    /\ calls[1].op = "start" /\ calls[1].result = "scheduler"
    /\ calls[2].op = "start" /\ calls[2].result = "ok"
    /\ calls[1].events[Len(calls[1].events)].inst = calls[2].events[Len(calls[2].events) - 1].inst
    /\ constructed = <<"scheduler", "handler">>

HandlerStarted ==
    /\ \E p \in StartsOf("handler") : EventAt(p).ok
    /\ \A p \in Positions("handler") : EventAt(p).op # "stop"

\* C19: a stop(), wait() or reset() makes no call on the continuous handler and
\* does not construct it; the handler's stop is never called, and a handler that
\* start() started is still started after the call.
C19_HandlerUntouched ==
    [][Len(calls') = Len(calls) + 1 =>
          LET c == calls'[Len(calls')] IN
          /\ c.op \in OtherOps =>
                 /\ EventsOf(c, "handler") = {}
                 /\ _continuous_handler' = _continuous_handler
                 /\ CountOf("handler")' = CountOf("handler")
                 /\ HandlerStarted => HandlerStarted'
          /\ \A i \in EventsOf(c, "handler") : c.events[i].op = "start"]_vars

C19_Witness ==
    /\ Len(calls) = 2
    /\ calls[1].op = "start" /\ calls[1].result = "ok"
    /\ calls[2].op = "stop" /\ calls[2].result = "ok"
    /\ HandlerStarted /\ _continuous_handler # None

\* ---- the profiling gate -------------------------------------------------------------
InitGate ==
    /\ ProfilerInit
    /\ info = "none"
    /\ func = "double"
    /\ ServiceInit

NextGate ==
    \/ \E t \in Threads : CheckEnabled(t)
    \/ \E t \in Threads, p \in ProfInit : ProfilerSession(t, p)
    \/ Reload

SpecGate == InitGate /\ [][NextGate]_vars

\* C14: a call of is_profiling_enabled() returns true exactly when
\* CONF.profiler.enabled is true and the thread has an active profiler, and it
\* changes neither the configuration nor the profiler nor anything else.
C14_GateIsConjunction ==
    [][\A t \in Threads :
          gate'[t] # gate[t] =>
              /\ gate'[t] # None
              /\ gate'[t][1].enabled = CONF.enabled
              /\ gate'[t][1].active = prof[t].active
              /\ gate'[t][1].ret <=> (CONF.enabled /\ prof[t].active)
              /\ UNCHANGED <<CONF, profVars, svcVars>>]_vars

C14_Witness ==
    /\ gate["t1"] # None /\ gate["t2"] # None
    /\ gate["t1"][1].ret
    /\ gate["t2"][1].enabled /\ ~gate["t2"][1].active /\ ~gate["t2"][1].ret

\* ---- concurrent instrumented calls ----------------------------------------------------
ConcMeta == {[kind |-> "dict", audit_id |-> Some(a)] : a \in {x \in AuditIdValues : Truthy(Some(x))}}

ConcArgs == {1}

ConcSamples == {s \in SampleOutcomes : ~s.ok \/ s.rss >= 100 * BytesPerMB}

InitConc ==
    /\ ProfilerInit
    /\ CONF.enabled /\ CONF.trace_audit_execution
    /\ info = "callable"
    /\ func = "double"
    /\ prof = [t \in Threads |-> [active |-> TRUE, names |-> <<"outer">>]]
    /\ ServiceInit

StepConc(t) ==
    \/ \E a \in ConcArgs, m \in ConcMeta : Invoke(t, a, m)
    \/ \E s \in ConcSamples : Enter(t, s)
    \/ TracedCall(t)
    \/ \E s \in ConcSamples : Exit(t, s, FALSE)

NextConc ==
    \/ \E t \in Threads : StepConc(t)
    \/ \E v \in BOOLEAN : SetConf("trace_memory_usage", v)

SpecConc == InitConc /\ [][NextConc]_vars

\* C20: whatever the interleaving of the calls of two threads, the tracker a call
\* works on holds the audit_id that call derived and the baseline that call
\* sampled, and every mapping a call publishes carries its own baseline, its own
\* peak, their difference and its own audit_id.
C20_OwnMeasurements ==
    \A t \in Threads :
        /\ InFlight(t) => tracker[t].audit_id = obs[t].aid
        /\ (pc[t] \in {"call", "exit"} /\ tracker[t].mem_baseline # None) =>
               \E k \in SamplesAt(t, "enter") :
                   obs[t].samples[k].ok
                   /\ tracker[t].mem_baseline = Some(ToMB(obs[t].samples[k].rss))
        /\ \A j \in 1..Len(obs[t].pubCalls) :
               LET m == obs[t].pubCalls[j] IN
               /\ \E k \in SamplesAt(t, "enter") :
                      obs[t].samples[k].ok
                      /\ m.memory_baseline_mb = ToMB(obs[t].samples[k].rss)
               /\ \E k \in SamplesAt(t, "exit") :
                      obs[t].samples[k].ok
                      /\ m.memory_peak_mb = ToMB(obs[t].samples[k].rss)
               /\ MBUnits(m.memory_delta_mb) =
                      MBUnits(m.memory_peak_mb) - MBUnits(m.memory_baseline_mb)
               /\ m.audit_id = PublishedAuditId(obs[t].aid)

C20_Witness ==
    /\ Done("t1") /\ Done("t2")
    /\ obs["t1"].overlap \/ obs["t2"].overlap
    /\ Len(obs["t1"].pubCalls) = 1 /\ Len(obs["t2"].pubCalls) = 1
    /\ obs["t1"].pubCalls[1].audit_id # obs["t2"].pubCalls[1].audit_id
    /\ obs["t1"].pubCalls[1].memory_baseline_mb # obs["t2"].pubCalls[1].memory_baseline_mb
    /\ obs["t1"].pubCalls[1].memory_peak_mb # obs["t2"].pubCalls[1].memory_peak_mb

====
